---- MODULE Spec2Model ----
(***************************************************************************)
(* State-machine model of the tree engine of react-virtual-tree            *)
(* (src/src/engine.ts, class Engine) and of the part of the Tree component *)
(* that drives it (src/dist/index.js).                                     *)
(*                                                                         *)
(* Strings of the program (labels, queries) are sequences of characters;   *)
(* a character is a one-element name.  Node IDs are TLA+ strings.  JS Maps *)
(* are functions on their key set, JS Sets are sets (observers, whose      *)
(* iteration order matters, is a duplicate-free sequence).                 *)
(***************************************************************************)
EXTENDS Integers, Sequences, FiniteSets, TLC

VARIABLES
    \* ---- Engine fields (engine.ts 25-51) ----
    allCheckedCache, allCheckedCacheVersion, assignments, childrenMap,
    expanded, expandVersion, flatCacheVersion, flatVisibleItems, folderSet,
    indexById, labelMap, leafIds, minSearchChars, normalizedLeafLabel,
    normalizedQuery, observers, parentMap, rootId, searchActive, searchEpoch,
    searchQuery, selectionVersion, stateCache, stateCacheFiltered, version,
    visibleChildrenMap, visibleSet,
    \* ---- environment of the engine ----
    keyOrder,   \* insertion order of childrenMap's keys (Object.entries order)
    handles,    \* unsubscribe closures handed out by subscribe, in order
    ctl,        \* the controlling Tree component (closure state, pending echoes)
    last,       \* the latest public call: its name and arguments
    calls,      \* the callbacks invoked by the latest public call, in order
    seen,       \* what the getters returned to each of these callbacks
    released,   \* the unsubscribe closures that have been called
    preSearch,  \* Expanded as it was when the search in force was activated
    budget      \* public calls the run may still make

engineVars ==
    <<allCheckedCache, allCheckedCacheVersion, assignments, childrenMap,
      expanded, expandVersion, flatCacheVersion, flatVisibleItems, folderSet,
      indexById, labelMap, leafIds, minSearchChars, normalizedLeafLabel,
      normalizedQuery, observers, parentMap, rootId, searchActive, searchEpoch,
      searchQuery, selectionVersion, stateCache, stateCacheFiltered, version,
      visibleChildrenMap, visibleSet>>

vars ==
    <<engineVars, keyOrder, handles, ctl, last, calls, seen, released, preSearch,
      budget>>

\* the topology, fixed by the constructor
structVars ==
    <<childrenMap, folderSet, labelMap, leafIds, normalizedLeafLabel,
      parentMap, rootId, keyOrder>>

-----------------------------------------------------------------------------
(* Bounds of the model.                                                    *)

\* public calls in one run
MaxOps == 3

-----------------------------------------------------------------------------
(* JS values.                                                              *)

\* undefined / null: what Map.get gives for a missing key, the root's parent
Undefined == "<undefined>"

\* JS truthiness of a string-or-null value (while (p), while (current))
Truthy(x) == x # Undefined /\ x # ""

EmptyMap == [k \in {} |-> k]

MapHas(m, k) == k \in DOMAIN m

MapGet(m, k, dflt) == IF k \in DOMAIN m THEN m[k] ELSE dflt

MapSet(m, k, v) == [x \in DOMAIN m \cup {k} |-> IF x = k THEN v ELSE m[x]]

MapDelete(m, k) == [x \in DOMAIN m \ {k} |-> m[x]]

Range(s) == {s[i] : i \in DOMAIN s}

\* CheckedState (constants.ts, imported at engine.ts 1)
Checked == "checked"

Unchecked == "unchecked"

Indeterminate == "indeterminate"

-----------------------------------------------------------------------------
(* Text: String.prototype.normalize("NFD"), the combining-mark strip and   *)
(* toLowerCase of Engine.normalize, on a small alphabet.                   *)
(*   "a_acute" is U+00E1 (precomposed), "acute" is U+0301 (combining).     *)

\* canonical decomposition of one character
nfd(ch) == IF ch = "a_acute" THEN <<"a", "acute">> ELSE <<ch>>

\* the range U+0300..U+036F removed by the strip
combining(ch) == ch = "acute"

toLowerCase(ch) ==
    CASE ch = "A" -> "a"
      [] ch = "L" -> "l"
      [] OTHER -> ch

RECURSIVE flatMapNfd(_)
flatMapNfd(s) == IF s = << >> THEN << >> ELSE nfd(Head(s)) \o flatMapNfd(Tail(s))

notCombining(ch) == ~combining(ch)

normalize(s) ==
    LET stripped == SelectSeq(flatMapNfd(s), notCombining)
    IN  [i \in 1..Len(stripped) |-> toLowerCase(stripped[i])]

\* String.prototype.includes
includes(s, q) ==
    \E i \in 0..(Len(s) - Len(q)) : \A j \in 1..Len(q) : s[i + j] = q[j]

-----------------------------------------------------------------------------
(* The input of the constructor.                                           *)

\* the text of an ID, used as the label of an entry that has none (the IDs of
\* the leaves of the inputs are one character long)
IdText(id) == <<id>>

NoLabel == <<"<nolabel>">>

DefaultRootId == "__root__"

\* A forest rooted at __root__:   __root__ -> p, d ;  p -> q, c ;  q -> a
\* labels: a "Al", c (none, so "c"), d "a'l" (with U+00E1)
TreeMain ==
    << [id |-> "__root__", children |-> <<"p", "d">>, label |-> <<"r">>],
       [id |-> "p", children |-> <<"q", "c">>, label |-> <<"P">>],
       [id |-> "q", children |-> <<"a">>, label |-> <<"Q">>],
       [id |-> "a", children |-> << >>, label |-> <<"A", "l">>],
       [id |-> "c", children |-> << >>, label |-> NoLabel],
       [id |-> "d", children |-> << >>, label |-> <<"a_acute", "l">>] >>

\* a tree whose root has no children yet
TreeBare ==
    << [id |-> "__root__", children |-> << >>, label |-> <<"r">>] >>

TreeInputs == {TreeMain, TreeBare}

\* an ID that is no key of the tree
UnknownId == "zz"

NodeIds == {TreeMain[i].id : i \in DOMAIN TreeMain}

IdInputs == NodeIds \cup {UnknownId}

\* opts of the constructor: minSearchChars (0 stands for an absent option, both
\* are falsy) and initialExpanded
ConstructorInputs ==
    {[minSearchChars |-> 2, initialExpanded |-> <<"p", "d">>]}

DefaultMinSearchChars == 3

\* ---- the constructor's loops (engine.ts 70-96) ----

dataIds(data) == [i \in DOMAIN data |-> data[i].id]

buildChildrenMap(data) ==
    [id \in Range(dataIds(data)) |->
        LET i == CHOOSE j \in DOMAIN data :
                    /\ data[j].id = id
                    /\ \A k \in DOMAIN data : data[k].id = id => k <= j
        IN  data[i].children]

buildLabelMap(data) ==
    [id \in Range(dataIds(data)) |->
        LET i == CHOOSE j \in DOMAIN data :
                    /\ data[j].id = id
                    /\ \A k \in DOMAIN data : data[k].id = id => k <= j
        IN  IF data[i].label = NoLabel THEN IdText(id) ELSE data[i].label]

buildFolderSet(data) == {data[i].id : i \in {j \in DOMAIN data : Len(data[j].children) > 0}}

isLeafEntry(e) == Len(e.children) = 0

buildLeafIds(data) == dataIds(SelectSeq(data, isLeafEntry))

\* parentMap.set(child, id) for every entry in order: the last writer wins
buildParentMap(data, root) ==
    LET kids == UNION {Range(data[i].children) : i \in DOMAIN data}
        lastParent(c) ==
            LET i == CHOOSE j \in DOMAIN data :
                        /\ c \in Range(data[j].children)
                        /\ \A k \in DOMAIN data : c \in Range(data[k].children) => k <= j
            IN  data[i].id
    IN  [c \in kids \cup {root} |-> IF c \in kids THEN lastParent(c) ELSE Undefined]

buildExpanded(data, root, initialExpanded) ==
    Range(initialExpanded) \cup (IF root \in buildFolderSet(data) THEN {root} ELSE {})

buildNormalizedLeafLabel(data) ==
    LET leaves == buildLeafIds(data)
        labels == buildLabelMap(data)
    IN  [id \in Range(leaves) |-> normalize(MapGet(labels, id, IdText(id)))]

-----------------------------------------------------------------------------
(* The mutable fields of the engine as one record, so that a handler is a  *)
(* function from the state it is called in to the state it returns in.     *)
(* The topology fields (childrenMap, parentMap, folderSet, leafIds,        *)
(* normalizedLeafLabel, rootId) never change and are read directly.        *)

Cur ==
    [allCheckedCache |-> allCheckedCache,
     allCheckedCacheVersion |-> allCheckedCacheVersion,
     assignments |-> assignments,
     expanded |-> expanded,
     expandVersion |-> expandVersion,
     flatCacheVersion |-> flatCacheVersion,
     flatVisibleItems |-> flatVisibleItems,
     indexById |-> indexById,
     minSearchChars |-> minSearchChars,
     normalizedQuery |-> normalizedQuery,
     observers |-> observers,
     searchActive |-> searchActive,
     searchEpoch |-> searchEpoch,
     searchQuery |-> searchQuery,
     selectionVersion |-> selectionVersion,
     stateCache |-> stateCache,
     stateCacheFiltered |-> stateCacheFiltered,
     version |-> version,
     visibleChildrenMap |-> visibleChildrenMap,
     visibleSet |-> visibleSet,
     handles |-> handles,
     ctl |-> ctl,
     calls |-> calls,
     seen |-> seen,
     released |-> released]

-----------------------------------------------------------------------------
(* Tri-state resolver (engine.ts 456-550).                                 *)

\* a lookup of the node's own assignment, without the walk up the parents
ownAssignment(e, current) ==
    IF MapHas(e.assignments, current) THEN <<e.assignments[current]>> ELSE << >>

\* << >> is "undefined", <<b>> is the boolean found
RECURSIVE findNearestAssignment(_, _)
findNearestAssignment(e, current) ==
    IF ~Truthy(current) THEN << >>
    ELSE IF MapHas(e.assignments, current) THEN <<e.assignments[current]>>
    ELSE findNearestAssignment(e, MapGet(parentMap, current, Undefined))

leafState(e, id) ==
    IF findNearestAssignment(e, id) = <<TRUE>> THEN Checked ELSE Unchecked

\* a summary that never answers Indeterminate
summaryAnyChecked(checkedCount, n) ==
    IF checkedCount = 0 THEN Unchecked ELSE Checked

summary(checkedCount, n) ==
    IF checkedCount = 0 THEN Unchecked
    ELSE IF checkedCount = n THEN Checked
    ELSE Indeterminate

\* getStateBase(e, id) is the engine after the call; the value returned is
\* its stateCache[id]
RECURSIVE getStateBase(_, _)
RECURSIVE sumBase(_, _, _, _, _)
getStateBase(e, id) ==
    IF MapHas(e.stateCache, id) THEN e
    ELSE LET children == MapGet(childrenMap, id, << >>)
         IN  IF Len(children) = 0
             THEN [e EXCEPT !.stateCache = MapSet(@, id, leafState(e, id))]
             ELSE sumBase(e, id, children, 1, 0)

\* the loop over the children, at child i with checkedCount counted so far
sumBase(e, id, children, i, checkedCount) ==
    IF i > Len(children)
    THEN [e EXCEPT !.stateCache = MapSet(@, id, summary(checkedCount, Len(children)))]
    ELSE LET e1 == getStateBase(e, children[i])
             st == e1.stateCache[children[i]]
         IN  IF st = Indeterminate
             THEN [e1 EXCEPT !.stateCache = MapSet(@, id, Indeterminate)]
             ELSE sumBase(e1, id, children, i + 1,
                          IF st = Checked THEN checkedCount + 1 ELSE checkedCount)

\* a children view that ignores the search
fullChildren(e, id) == MapGet(childrenMap, id, << >>)

viewChildren(e, id) ==
    IF e.searchActive THEN MapGet(e.visibleChildrenMap, id, << >>)
    ELSE MapGet(childrenMap, id, << >>)

RECURSIVE getStateFiltered(_, _)
RECURSIVE sumFiltered(_, _, _, _, _)
getStateFiltered(e, id) ==
    IF MapHas(e.stateCacheFiltered, id) THEN e
    ELSE LET children == viewChildren(e, id)
         IN  IF Len(children) = 0
             THEN [e EXCEPT !.stateCacheFiltered = MapSet(@, id, leafState(e, id))]
             ELSE sumFiltered(e, id, children, 1, 0)

sumFiltered(e, id, children, i, checkedCount) ==
    IF i > Len(children)
    THEN [e EXCEPT !.stateCacheFiltered =
                        MapSet(@, id, summary(checkedCount, Len(children)))]
    ELSE LET e1 == getStateFiltered(e, children[i])
             st == e1.stateCacheFiltered[children[i]]
         IN  IF st = Indeterminate
             THEN [e1 EXCEPT !.stateCacheFiltered = MapSet(@, id, Indeterminate)]
             ELSE sumFiltered(e1, id, children, i + 1,
                              IF st = Checked THEN checkedCount + 1 ELSE checkedCount)

\* getViewState: the engine after the call, and the value it returns
getViewState(e, id) ==
    IF e.searchActive THEN getStateFiltered(e, id) ELSE getStateBase(e, id)

getViewStateRet(e, id) ==
    IF e.searchActive THEN getStateFiltered(e, id).stateCacheFiltered[id]
    ELSE getStateBase(e, id).stateCache[id]

\* a loop that pushes every Checked key, folders included
RECURSIVE allCheckedLoopWithFolders(_, _, _)
allCheckedLoopWithFolders(e, i, result) ==
    IF i > Len(keyOrder)
    THEN [e EXCEPT !.allCheckedCache = result,
                   !.allCheckedCacheVersion = e.selectionVersion]
    ELSE LET id == keyOrder[i]
             e1 == getStateBase(e, id)
         IN  allCheckedLoopWithFolders(e1, i + 1,
                 IF e1.stateCache[id] = Checked
                 THEN Append(result, id) ELSE result)

\* getAllChecked (engine.ts 129-145): the loop over childrenMap's keys
RECURSIVE allCheckedLoop(_, _, _)
allCheckedLoop(e, i, result) ==
    IF i > Len(keyOrder)
    THEN [e EXCEPT !.allCheckedCache = result,
                   !.allCheckedCacheVersion = e.selectionVersion]
    ELSE LET id == keyOrder[i]
         IN  IF id \in folderSet THEN allCheckedLoop(e, i + 1, result)
             ELSE LET e1 == getStateBase(e, id)
                  IN  allCheckedLoop(e1, i + 1,
                          IF e1.stateCache[id] = Checked
                          THEN Append(result, id) ELSE result)

getAllChecked(e) ==
    IF e.allCheckedCacheVersion = e.selectionVersion THEN e
    ELSE allCheckedLoop(e, 1, << >>)

getAllCheckedRet(e) == getAllChecked(e).allCheckedCache

-----------------------------------------------------------------------------
(* Visible-list flattener (engine.ts 206-258).                             *)

\* (version << 8) ^ searchEpoch on 32-bit integers, each operand kept as its
\* two unsigned 16-bit halves so that no intermediate value leaves 32 bits
Two8 == 256

Two16 == 65536

RECURSIVE xorBits(_, _)
xorBits(a, b) ==
    IF a = 0 THEN b
    ELSE IF b = 0 THEN a
    ELSE ((a + b) % 2) + 2 * xorBits(a \div 2, b \div 2)

cacheKey(e) ==
    LET vHi == (e.version \div Two8) % Two16            \* bits 16..31 of version << 8
        vLo == (e.version % Two8) * Two8                \* bits 0..15 of version << 8
        sHi == (e.searchEpoch \div Two16) % Two16
        sLo == e.searchEpoch % Two16
        hi  == xorBits(vHi, sHi)
        lo  == xorBits(vLo, sLo)
    IN  (IF hi >= Two16 \div 2 THEN hi - Two16 ELSE hi) * Two16 + lo

RECURSIVE visit(_, _, _, _)
RECURSIVE visitAll(_, _, _, _, _)
\* a visit that descends into a folder whether or not it is expanded
visitIgnoringExpanded(e, id, level, out) ==
    LET c == viewChildren(e, id)
    IN  IF id # rootId
        THEN LET isFolder == id \in folderSet
                 hasVisibleChildren == Len(c) > 0
                 effectiveFolder == IF e.searchActive THEN hasVisibleChildren ELSE isFolder
                 isExpanded == effectiveFolder /\ id \in e.expanded
                 v == [id |-> id, isExpanded |-> isExpanded,
                       isFolder |-> effectiveFolder, level |-> level]
             IN  IF ~effectiveFolder THEN Append(out, v)
                 ELSE visitAll(e, c, 1, level + 1, Append(out, v))
        ELSE visitAll(e, c, 1, 0, out)

visit(e, id, level, out) ==
    LET c == viewChildren(e, id)
    IN  IF id # rootId
        THEN LET isFolder == id \in folderSet
                 hasVisibleChildren == Len(c) > 0
                 effectiveFolder == IF e.searchActive THEN hasVisibleChildren ELSE isFolder
                 isExpanded == effectiveFolder /\ id \in e.expanded
                 v == [id |-> id, isExpanded |-> isExpanded,
                       isFolder |-> effectiveFolder, level |-> level]
             IN  IF ~effectiveFolder \/ ~isExpanded THEN Append(out, v)
                 ELSE visitAll(e, c, 1, level + 1, Append(out, v))
        ELSE visitAll(e, c, 1, 0, out)

\* for (const child of c) visit(child, ...)
visitAll(e, c, i, level, out) ==
    IF i > Len(c) THEN out
    ELSE visitAll(e, c, i + 1, level, visit(e, c[i], level, out))

\* an index recorded after the push
indexOfRowsAfterPush(out) ==
    [id \in {out[i].id : i \in DOMAIN out} |->
        CHOOSE i \in DOMAIN out :
            /\ out[i].id = id
            /\ \A j \in DOMAIN out : out[j].id = id => j <= i]

\* indexById.set(id, out.length) before each push: a later row of the same
\* ID overwrites an earlier one
indexOfRows(out) ==
    [id \in {out[i].id : i \in DOMAIN out} |->
        (CHOOSE i \in DOMAIN out :
            /\ out[i].id = id
            /\ \A j \in DOMAIN out : out[j].id = id => j <= i) - 1]

getVisibleItems(e) ==
    IF e.flatCacheVersion = cacheKey(e) THEN e
    ELSE LET out == visit(e, rootId, -1, << >>)
         IN  [e EXCEPT !.flatVisibleItems = out,
                       !.indexById = indexOfRows(out),
                       !.flatCacheVersion = cacheKey(e)]

getVisibleItemsRet(e) == getVisibleItems(e).flatVisibleItems

indexOfRet(e, id) == MapGet(getVisibleItems(e).indexById, id, -1)

-----------------------------------------------------------------------------
(* Notification (engine.ts 382, 392-395, 430-435, 557-567) and the Tree    *)
(* component's subscriber (dist/index.js 1223-1247).                       *)

\* the two callbacks the Tree component subscribes, and two plain ones
ForceCallback == "force"

UpstreamCallback == "upstream"

Callbacks == {"cb1", "cb2"}

\* the Tree's upstream-events callback, run inside the dispatch loop:
\* onCheck(engine.getAllChecked()) / onExpand(engine.getExpanded()) hand the
\* values to the controlling parent, whose changed props schedule the
\* controlled effects
upstream(e) ==
    LET selChanged == e.selectionVersion # e.ctl.prevSelVer
        expChanged == e.expandVersion # e.ctl.prevExpVer
        e1 == IF selChanged THEN getAllChecked(e) ELSE e
        c1 == IF selChanged
              THEN [e.ctl EXCEPT !.prevSelVer = e.selectionVersion,
                                 !.checkedItems = Range(e1.allCheckedCache),
                                 !.pendChecked = TRUE]
              ELSE e.ctl
        c2 == IF expChanged
              THEN [c1 EXCEPT !.prevExpVer = e.expandVersion,
                              !.expandedItems = e.expanded,
                              !.pendExpanded = TRUE]
              ELSE c1
    IN  [e1 EXCEPT !.ctl = c2]

\* what a callback reads off the engine when it runs: the values the getters
\* return to it (getVisibleItems, getViewState, getAllChecked, getExpanded,
\* isSearchActive, getSearchQuery and the version getters)
Observed(e) ==
    [visibleItems |-> getVisibleItemsRet(e),
     viewState |-> [id \in IdInputs |-> getViewStateRet(e, id)],
     allChecked |-> getAllCheckedRet(e),
     expanded |-> e.expanded,
     searchActive |-> e.searchActive,
     searchQuery |-> e.searchQuery,
     version |-> e.version,
     selectionVersion |-> e.selectionVersion,
     expandVersion |-> e.expandVersion]

invoke(e, ob) ==
    LET e1 == [e EXCEPT !.calls = Append(@, ob), !.seen = Append(@, Observed(e))]
    IN  IF ob = UpstreamCallback THEN upstream(e1) ELSE e1

\* for (const ob of this.observers) ob();
RECURSIVE dispatchFrom(_, _)
dispatchFrom(e, i) ==
    IF i > Len(e.observers) THEN e ELSE dispatchFrom(invoke(e, e.observers[i]), i + 1)

dispatch(e) == dispatchFrom(e, 1)

\* a notify that runs the callbacks before it counts and invalidates
notifyDispatchingFirst(e, silent) ==
    [dispatch(e) EXCEPT
        !.selectionVersion = IF silent THEN @ ELSE @ + 1,
        !.version = @ + 1,
        !.stateCache = EmptyMap,
        !.stateCacheFiltered = EmptyMap,
        !.flatCacheVersion = -1,
        !.allCheckedCacheVersion = -1]

\* a notify that leaves the checked-leaf memo valid
notifyKeepingAllChecked(e, silent) ==
    dispatch([e EXCEPT
        !.selectionVersion = IF silent THEN @ ELSE @ + 1,
        !.version = @ + 1,
        !.stateCache = EmptyMap,
        !.stateCacheFiltered = EmptyMap,
        !.flatCacheVersion = -1])

\* a notify that leaves the two tri-state memos in place
notifyKeepingStateCaches(e, silent) ==
    dispatch([e EXCEPT
        !.selectionVersion = IF silent THEN @ ELSE @ + 1,
        !.version = @ + 1,
        !.flatCacheVersion = -1,
        !.allCheckedCacheVersion = -1])

notify(e, silent) ==
    dispatch([e EXCEPT
        !.selectionVersion = IF silent THEN @ ELSE @ + 1,
        !.version = @ + 1,
        !.stateCache = EmptyMap,
        !.stateCacheFiltered = EmptyMap,
        !.flatCacheVersion = -1,
        !.allCheckedCacheVersion = -1])

\* a layout bump that also counts as a selection change
bumpAsSelection(e) ==
    dispatch([e EXCEPT
        !.selectionVersion = @ + 1,
        !.version = @ + 1,
        !.expandVersion = @ + 1,
        !.flatCacheVersion = -1])

\* a layout bump that leaves expandVersion alone
bumpVersionOnly(e) ==
    dispatch([e EXCEPT
        !.version = @ + 1,
        !.flatCacheVersion = -1])

bumpNoRecompute(e) ==
    dispatch([e EXCEPT
        !.version = @ + 1,
        !.expandVersion = @ + 1,
        !.flatCacheVersion = -1])

\* observers.add(cb), and the closure returned
subscribe(e, cb) ==
    [e EXCEPT !.observers = IF cb \in Range(@) THEN @ ELSE Append(@, cb),
              !.handles = Append(@, cb)]

\* observers.delete(cb), run by the closure
unsubscribe(e, h) ==
    LET cb == e.handles[h]
        keep(x) == x # cb
    IN  [e EXCEPT !.observers = SelectSeq(@, keep), !.released = @ \cup {h}]

-----------------------------------------------------------------------------
(* Expansion (engine.ts 114-127, 302-308, 421-428).                        *)

rootIfFolder == IF rootId \in folderSet THEN {rootId} ELSE {}

\* a collapseAll that clears the set and does not re-add the root
collapseAllNoRoot(e) == bumpNoRecompute([e EXCEPT !.expanded = {}])

collapseAll(e) == bumpNoRecompute([e EXCEPT !.expanded = rootIfFolder])

expandAll(e) == bumpNoRecompute([e EXCEPT !.expanded = @ \cup folderSet])

\* a === b on two distinct Set objects
sameSetObject(a, b) == FALSE

setsEqual(a, b) == Cardinality(a) = Cardinality(b) /\ \A v \in a : v \in b

\* a setExpanded without the equality check
setExpandedUnchecked(e, ids) ==
    bumpNoRecompute([e EXCEPT !.expanded = ids \cup rootIfFolder])

setExpanded(e, ids) ==
    IF setsEqual(ids, e.expanded) THEN e
    ELSE bumpNoRecompute([e EXCEPT !.expanded = ids \cup rootIfFolder])

\* a toggleExpanded without the folder test
toggleExpandedAnyId(e, id) ==
    LET flipped == IF id \in e.expanded THEN e.expanded \ {id}
                   ELSE e.expanded \cup {id}
        kept == IF id = rootId /\ rootId \notin flipped
                THEN flipped \cup {rootId} ELSE flipped
    IN  bumpNoRecompute([e EXCEPT !.expanded = kept])

\* a toggleExpanded that treats the root like any folder
toggleExpandedAnyFolder(e, id) ==
    IF id \notin folderSet THEN e
    ELSE bumpNoRecompute([e EXCEPT !.expanded =
            IF id \in @ THEN @ \ {id} ELSE @ \cup {id}])

toggleExpanded(e, id) ==
    IF id \notin folderSet THEN e
    ELSE LET flipped == IF id \in e.expanded THEN e.expanded \ {id}
                        ELSE e.expanded \cup {id}
             kept == IF id = rootId /\ rootId \notin flipped
                     THEN flipped \cup {rootId} ELSE flipped
         IN  bumpNoRecompute([e EXCEPT !.expanded = kept])

-----------------------------------------------------------------------------
(* Selection (engine.ts 284-294, 406-412, 441-447, 591-632).               *)

RECURSIVE clearSubtreeAssignments(_, _)
RECURSIVE clearChildren(_, _, _)
\* a clear that deletes the direct children's assignments only
clearDirectChildren(asg, id) ==
    [x \in DOMAIN asg \ Range(MapGet(childrenMap, id, << >>)) |-> asg[x]]

\* the assignments after clearSubtreeAssignments(id)
clearSubtreeAssignments(asg, id) ==
    clearChildren(asg, MapGet(childrenMap, id, << >>), 1)

clearChildren(asg, children, i) ==
    IF i > Len(children) THEN asg
    ELSE clearChildren(clearSubtreeAssignments(MapDelete(asg, children[i]), children[i]),
                       children, i + 1)

\* a toggleFull that leaves the descendants' assignments in place
toggleFullNoClear(e, id, checked) ==
    notify([e EXCEPT !.assignments = MapSet(@, id, checked)], FALSE)

toggleFull(e, id, checked) ==
    notify([e EXCEPT !.assignments =
                clearSubtreeAssignments(MapSet(@, id, checked), id)],
           FALSE)

\* a traversal over childrenMap in place of visibleChildrenMap
RECURSIVE forEachLeafUnder(_, _, _)
forEachLeafUnder(e, stack, found) ==
    IF Len(stack) = 0 THEN found
    ELSE LET cur == stack[Len(stack)]
             rest == SubSeq(stack, 1, Len(stack) - 1)
             children == MapGet(childrenMap, cur, << >>)
         IN  IF Len(children) = 0
             THEN forEachLeafUnder(e, rest,
                      IF cur \notin folderSet THEN found \cup {cur} ELSE found)
             ELSE forEachLeafUnder(e, rest \o children, found)

\* forEachVisibleLeafUnder: the leaves fn is applied to, from the stack left
RECURSIVE forEachVisibleLeafUnder(_, _, _)
forEachVisibleLeafUnder(e, stack, found) ==
    IF Len(stack) = 0 THEN found
    ELSE LET cur == stack[Len(stack)]
             rest == SubSeq(stack, 1, Len(stack) - 1)
             children == MapGet(e.visibleChildrenMap, cur, << >>)
         IN  IF Len(children) = 0
             THEN forEachVisibleLeafUnder(e, rest,
                      IF cur \notin folderSet THEN found \cup {cur} ELSE found)
             ELSE forEachVisibleLeafUnder(e, rest \o children, found)

setAll(asg, ids, checked) ==
    [x \in DOMAIN asg \cup ids |-> IF x \in ids THEN checked ELSE asg[x]]

\* a toggleVisibleOnly that returns quietly when the folder has no visible leaf
toggleVisibleOnlyWhenFound(e, id, checked) ==
    IF id \notin folderSet
    THEN notify([e EXCEPT !.assignments = MapSet(@, id, checked)], FALSE)
    ELSE LET found == forEachVisibleLeafUnder(e, <<id>>, {})
         IN  IF found = {} THEN e
             ELSE notify([e EXCEPT !.assignments = setAll(@, found, checked)], FALSE)

toggleVisibleOnly(e, id, checked) ==
    IF id \notin folderSet
    THEN notify([e EXCEPT !.assignments = MapSet(@, id, checked)], FALSE)
    ELSE notify([e EXCEPT !.assignments =
                    setAll(@, forEachVisibleLeafUnder(e, <<id>>, {}), checked)],
                FALSE)

toggle(e, id, checked) ==
    IF e.searchActive THEN toggleVisibleOnly(e, id, checked)
    ELSE toggleFull(e, id, checked)

\* a setChecked that adds to the assignments without clearing them
setCheckedMerging(e, input, silent) ==
    LET n  == {id \in input : id \notin folderSet}
        e1 == getAllChecked(e)
        o  == Range(e1.allCheckedCache)
    IN  IF setsEqual(n, o) THEN e1
        ELSE notify([e1 EXCEPT !.assignments = setAll(@, n, TRUE)], silent)

\* input is the set of the elements of the array passed
setChecked(e, input, silent) ==
    LET n  == {id \in input : id \notin folderSet}
        e1 == getAllChecked(e)
        o  == Range(e1.allCheckedCache)
    IN  IF setsEqual(n, o) THEN e1
        ELSE notify([e1 EXCEPT !.assignments = [id \in n |-> TRUE]], silent)

-----------------------------------------------------------------------------
(* Search (engine.ts 316-383).                                             *)

\* the nodes the while (p) loop adds for one match
RECURSIVE ancestors(_)
ancestors(p) ==
    IF ~Truthy(p) THEN {} ELSE {p} \cup ancestors(MapGet(parentMap, p, Undefined))

matchingLeaves(q) ==
    {leafIds[i] : i \in {j \in DOMAIN leafIds :
        includes(MapGet(normalizedLeafLabel, leafIds[j], << >>), q)}}

buildVisibleSet(q) ==
    (UNION {{leaf} \cup ancestors(MapGet(parentMap, leaf, Undefined)) :
                leaf \in matchingLeaves(q)}) \cup {rootId}

\* a restriction that lists the visible children last to first
buildVisibleChildrenMapReversed(vs) ==
    LET restricted(id) ==
            LET inSet(c) == c \in vs
                kept == SelectSeq(MapGet(childrenMap, id, << >>), inSet)
            IN  [i \in DOMAIN kept |-> kept[Len(kept) + 1 - i]]
    IN  [id \in {x \in vs : Len(restricted(x)) > 0} |-> restricted(id)]

buildVisibleChildrenMap(vs) ==
    LET restricted(id) ==
            LET inSet(c) == c \in vs
            IN  SelectSeq(MapGet(childrenMap, id, << >>), inSet)
    IN  [id \in {x \in vs : Len(restricted(x)) > 0} |-> restricted(id)]

\* setSearchQuery with another rule for Expanded, named by rule
setSearchQueryExpanding(e, raw, rule) ==
    LET q == normalize(raw)
    IN  IF q = e.normalizedQuery THEN [e EXCEPT !.searchQuery = raw]
        ELSE
        LET wasActive == e.searchActive
            active == Len(q) >= e.minSearchChars
            vs == IF active THEN buildVisibleSet(q) ELSE {}
            vcm == IF active THEN buildVisibleChildrenMap(vs) ELSE EmptyMap
            matches == {rootId} \cup (vs \cap folderSet)
            exp == CASE rule = "restoring" ->
                            IF active THEN matches
                            ELSE IF wasActive THEN preSearch \cup {rootId}
                            ELSE e.expanded
                     [] rule = "keeping" ->
                            IF active THEN matches ELSE e.expanded
                     [] rule = "adding" ->
                            IF active THEN e.expanded \cup matches
                            ELSE IF wasActive THEN {rootId}
                            ELSE e.expanded
        IN  dispatch([e EXCEPT
                !.searchQuery = raw,
                !.normalizedQuery = q,
                !.searchActive = active,
                !.visibleSet = vs,
                !.visibleChildrenMap = vcm,
                !.stateCacheFiltered = EmptyMap,
                !.expanded = exp,
                !.searchEpoch = @ + 1,
                !.version = @ + 1,
                !.expandVersion = @ + 1,
                !.flatCacheVersion = -1])

\* a deactivation that puts back the expansion the search replaced
setSearchQueryRestoring(e, raw) == setSearchQueryExpanding(e, raw, "restoring")

\* a deactivation that leaves Expanded as the search left it
setSearchQueryKeeping(e, raw) == setSearchQueryExpanding(e, raw, "keeping")

\* an activation that adds the visible folders without clearing first
setSearchQueryAdding(e, raw) == setSearchQueryExpanding(e, raw, "adding")

\* setSearchQuery with another rule for its early return or its counters,
\* named by rule
setSearchQueryCounting(e, raw, rule) ==
    LET q == normalize(raw)
    IN  IF rule # "unguarded" /\ q = e.normalizedQuery
        THEN [e EXCEPT !.searchQuery = raw]
        ELSE
        LET wasActive == e.searchActive
            active == Len(q) >= e.minSearchChars
            vs == IF active THEN buildVisibleSet(q) ELSE {}
            vcm == IF active THEN buildVisibleChildrenMap(vs) ELSE EmptyMap
            exp == IF active THEN {rootId} \cup (vs \cap folderSet)
                   ELSE IF wasActive THEN {rootId}
                   ELSE e.expanded
            quiet == rule = "quietWhileInactive" /\ ~active /\ ~wasActive
            e1 == [e EXCEPT
                    !.searchQuery = raw,
                    !.normalizedQuery = q,
                    !.searchActive = active,
                    !.visibleSet = vs,
                    !.visibleChildrenMap = vcm,
                    !.stateCacheFiltered = EmptyMap,
                    !.expanded = exp]
        IN  IF quiet THEN e1
            ELSE dispatch([e1 EXCEPT
                    !.searchEpoch = @ + 1,
                    !.version = @ + 1,
                    !.expandVersion = @ + 1,
                    !.flatCacheVersion = -1])

\* a setSearchQuery that recomputes whenever it is called
setSearchQueryUnguarded(e, raw) == setSearchQueryCounting(e, raw, "unguarded")

\* a setSearchQuery that counts and notifies only when a search is or was
\* in force
setSearchQueryQuietWhileInactive(e, raw) ==
    setSearchQueryCounting(e, raw, "quietWhileInactive")

setSearchQuery(e, raw) ==
    LET q == normalize(raw)
    IN  IF q = e.normalizedQuery THEN [e EXCEPT !.searchQuery = raw]
        ELSE
        LET wasActive == e.searchActive
            active == Len(q) >= e.minSearchChars
            vs == IF active THEN buildVisibleSet(q) ELSE {}
            vcm == IF active THEN buildVisibleChildrenMap(vs) ELSE EmptyMap
            exp == IF active THEN {rootId} \cup (vs \cap folderSet)
                   ELSE IF wasActive THEN {rootId}
                   ELSE e.expanded
        IN  dispatch([e EXCEPT
                !.searchQuery = raw,
                !.normalizedQuery = q,
                !.searchActive = active,
                !.visibleSet = vs,
                !.visibleChildrenMap = vcm,
                !.stateCacheFiltered = EmptyMap,
                !.expanded = exp,
                !.searchEpoch = @ + 1,
                !.version = @ + 1,
                !.expandVersion = @ + 1,
                !.flatCacheVersion = -1])

\* a setMinSearchChars that drops the selection with the old threshold
setMinSearchCharsResetting(e, n) ==
    LET m == IF n < 1 THEN 1 ELSE n
    IN  IF e.minSearchChars = m THEN e
        ELSE setSearchQuery([e EXCEPT !.minSearchChars = m,
                                      !.assignments = EmptyMap,
                                      !.stateCache = EmptyMap,
                                      !.allCheckedCacheVersion = -1],
                            e.searchQuery)

setMinSearchChars(e, n) ==
    LET m == IF n < 1 THEN 1 ELSE n
    IN  IF e.minSearchChars = m THEN e
        ELSE setSearchQuery([e EXCEPT !.minSearchChars = m], e.searchQuery)

-----------------------------------------------------------------------------
(* History records and the inputs of the public calls.                     *)

Call(op, id, flag, ids, q) ==
    [op |-> op, id |-> id, flag |-> flag, ids |-> ids, q |-> q]

NoCall == Call("new", "", FALSE, {}, << >>)

\* a call that only reads (and may fill a cache)
ReadCall == Call("read", "", FALSE, {}, << >>)

NoCtl ==
    [attached |-> FALSE, prevSelVer |-> 0, prevExpVer |-> 0,
     checkedItems |-> {}, expandedItems |-> {},
     pendChecked |-> FALSE, pendExpanded |-> FALSE]

\* arrays passed to setExpanded, besides getExpanded() itself
ExpandedInputs == {{}, {"p", "zz"}}

\* setChecked(ids, silent), besides setChecked(getAllChecked(), silent)
CheckedInputs == {<<{}, FALSE>>, <<{"a", "p"}, FALSE>>, <<{"a", "p"}, TRUE>>}

\* raw queries: "", "l", "AL", "al" (these match a and d), "xx" (matches nothing)
QueryInputs == {<< >>, <<"l">>, <<"A", "L">>, <<"a", "l">>, <<"x", "x">>}

MinSearchCharsInputs == {0, 3}

\* toggle(id, checked)
ToggleInputs ==
    {<<"p", TRUE>>, <<"p", FALSE>>, <<"a", FALSE>>, <<"c", TRUE>>,
     <<"__root__", TRUE>>, <<UnknownId, TRUE>>}

\* toggleExpanded(id)
ToggleExpandedInputs == {"__root__", "q", "d"}

\* indexOf(id)
IndexOfInputs == {"a"}

\* getViewState(id)
ViewStateInputs == {"__root__", "c"}

-----------------------------------------------------------------------------
(* new Engine(data, opts)  (engine.ts 59-97)                               *)

\* ran: the counters, 0 in a new engine
ConstructedAt(data, optMin, initialExpanded, ran) ==
    /\ rootId = DefaultRootId
    /\ minSearchChars = (IF optMin # 0 THEN optMin ELSE DefaultMinSearchChars)
    /\ keyOrder = dataIds(data)
    /\ childrenMap = buildChildrenMap(data)
    /\ labelMap = buildLabelMap(data)
    /\ folderSet = buildFolderSet(data)
    /\ leafIds = buildLeafIds(data)
    /\ parentMap = buildParentMap(data, DefaultRootId)
    /\ expanded = buildExpanded(data, DefaultRootId, initialExpanded)
    /\ normalizedLeafLabel = buildNormalizedLeafLabel(data)
    /\ allCheckedCache = << >>
    /\ allCheckedCacheVersion = -1
    /\ assignments = EmptyMap
    /\ expandVersion = ran.expandVersion
    /\ flatCacheVersion = -1
    /\ flatVisibleItems = << >>
    /\ indexById = EmptyMap
    /\ normalizedQuery = << >>
    /\ observers = << >>
    /\ searchActive = FALSE
    /\ searchEpoch = ran.searchEpoch
    /\ searchQuery = << >>
    /\ selectionVersion = 0
    /\ stateCache = EmptyMap
    /\ stateCacheFiltered = EmptyMap
    /\ version = ran.version
    /\ visibleChildrenMap = EmptyMap
    /\ visibleSet = {}

Constructed(data, optMin, initialExpanded) ==
    ConstructedAt(data, optMin, initialExpanded,
                  [version |-> 0, expandVersion |-> 0, searchEpoch |-> 0])

Init ==
    /\ \E data \in TreeInputs, opts \in ConstructorInputs :
            Constructed(data, opts.minSearchChars, opts.initialExpanded)
    /\ handles = << >>
    /\ ctl = NoCtl
    /\ last = NoCall
    /\ calls = << >>
    /\ seen = << >>
    /\ released = {}
    /\ preSearch = {}
    /\ budget = MaxOps

-----------------------------------------------------------------------------
(* One public call is one step.                                            *)

\* the state a handler starts in: nothing dispatched yet
Entry == [Cur EXCEPT !.calls = << >>, !.seen = << >>]

\* the engine becomes e2, the state the handler returned in
Step(e2, call, cost) ==
    /\ allCheckedCache' = e2.allCheckedCache
    /\ allCheckedCacheVersion' = e2.allCheckedCacheVersion
    /\ assignments' = e2.assignments
    /\ expanded' = e2.expanded
    /\ expandVersion' = e2.expandVersion
    /\ flatCacheVersion' = e2.flatCacheVersion
    /\ flatVisibleItems' = e2.flatVisibleItems
    /\ indexById' = e2.indexById
    /\ minSearchChars' = e2.minSearchChars
    /\ normalizedQuery' = e2.normalizedQuery
    /\ observers' = e2.observers
    /\ searchActive' = e2.searchActive
    /\ searchEpoch' = e2.searchEpoch
    /\ searchQuery' = e2.searchQuery
    /\ selectionVersion' = e2.selectionVersion
    /\ stateCache' = e2.stateCache
    /\ stateCacheFiltered' = e2.stateCacheFiltered
    /\ version' = e2.version
    /\ visibleChildrenMap' = e2.visibleChildrenMap
    /\ visibleSet' = e2.visibleSet
    /\ handles' = e2.handles
    /\ ctl' = e2.ctl
    /\ calls' = e2.calls
    /\ seen' = e2.seen
    /\ released' = e2.released
    /\ last' = call
    /\ preSearch' = IF ~e2.searchActive THEN {}
                    ELSE IF searchActive THEN preSearch ELSE expanded
    /\ budget' = budget - cost
    /\ UNCHANGED structVars

\* a public call made by the user of the engine
Do(e2, call) == Step(e2, call, 1)

\* the controlling parent's effects run before the next user event
Idle == ~ctl.pendChecked /\ ~ctl.pendExpanded

Callable == budget > 0 /\ Idle

Toggle ==
    \E in \in ToggleInputs :
        /\ Callable
        /\ Do(toggle(Entry, in[1], in[2]), Call("toggle", in[1], in[2], {}, << >>))

ToggleExpanded ==
    \E id \in ToggleExpandedInputs :
        /\ Callable
        /\ Do(toggleExpanded(Entry, id), Call("toggleExpanded", id, FALSE, {}, << >>))

ExpandAll ==
    /\ Callable
    /\ Do(expandAll(Entry), Call("expandAll", "", FALSE, {}, << >>))

CollapseAll ==
    /\ Callable
    /\ Do(collapseAll(Entry), Call("collapseAll", "", FALSE, {}, << >>))

SetExpanded ==
    \E ids \in ExpandedInputs \cup {expanded} :
        /\ Callable
        /\ Do(setExpanded(Entry, ids), Call("setExpanded", "", FALSE, ids, << >>))

SetChecked ==
    \E in \in CheckedInputs \cup ({Range(getAllCheckedRet(Cur))} \X BOOLEAN) :
        /\ Callable
        /\ Do(setChecked(Entry, in[1], in[2]),
              Call("setChecked", "", in[2], in[1], << >>))

SetSearchQuery ==
    \E raw \in QueryInputs :
        /\ Callable
        /\ Do(setSearchQuery(Entry, raw), Call("setSearchQuery", "", FALSE, {}, raw))

SetMinSearchChars ==
    \E n \in MinSearchCharsInputs :
        /\ Callable
        /\ Do(setMinSearchChars(Entry, n),
              Call("setMinSearchChars", "", FALSE, {n}, << >>))

\* ---- reads: they return a value and may fill a cache ----

GetVisibleItems ==
    /\ Callable
    /\ Do(getVisibleItems(Entry), ReadCall)

GetViewState ==
    \E id \in ViewStateInputs :
        /\ Callable
        /\ Do(getViewState(Entry, id), ReadCall)

GetAllChecked ==
    /\ Callable
    /\ Do(getAllChecked(Entry), ReadCall)

\* indexOf(id): getVisibleItems() and a lookup
IndexOf ==
    \E id \in IndexOfInputs :
        /\ Callable
        /\ Do(getVisibleItems(Entry), ReadCall)

\* ---- subscriptions ----

Subscribe ==
    \E cb \in Callbacks :
        /\ Callable
        /\ Do(subscribe(Entry, cb), Call("subscribe", cb, FALSE, {}, << >>))

Unsubscribe ==
    \E h \in DOMAIN handles :
        /\ Callable
        /\ Do(unsubscribe(Entry, h), Call("unsubscribe", handles[h], FALSE, {}, << >>))

Next ==
    \/ Toggle
    \/ ToggleExpanded
    \/ ExpandAll
    \/ CollapseAll
    \/ SetExpanded
    \/ SetChecked
    \/ SetSearchQuery
    \/ SetMinSearchChars
    \/ GetVisibleItems
    \/ GetViewState
    \/ GetAllChecked
    \/ IndexOf
    \/ Subscribe
    \/ Unsubscribe

Spec == Init /\ [][Next]_vars

-----------------------------------------------------------------------------
(* A long-lived engine.  The counters only ever grow (version++,           *)
(* expandVersion++, searchEpoch++), so an engine that has served           *)
(*   254 calls setSearchQuery("l"), setSearchQuery("") in turn, none of    *)
(*       which activates search under minSearchChars = 2, and then         *)
(*   2^24 - 256 calls toggleExpanded("q"), an even number,                 *)
(* is again in the state the constructor left, but for the counters:       *)
(* version = expandVersion = 2^24 - 2 and searchEpoch = 254.               *)

LateRun ==
    [version |-> 2^24 - 2, expandVersion |-> 2^24 - 2, searchEpoch |-> 2^8 - 2]

InitLate ==
    /\ \E data \in TreeInputs, opts \in ConstructorInputs :
            ConstructedAt(data, opts.minSearchChars, opts.initialExpanded, LateRun)
    /\ handles = << >>
    /\ ctl = NoCtl
    /\ last = NoCall
    /\ calls = << >>
    /\ seen = << >>
    /\ released = {}
    /\ preSearch = {}
    /\ budget = MaxOps

SpecLate == InitLate /\ [][Next]_vars

-----------------------------------------------------------------------------
(* The engine driven by a mounted Tree component whose parent controls      *)
(* checkedItems and expandedItems and stores what onCheck / onExpand hand  *)
(* it (dist/index.js 1218-1258, README "Controlled with search").          *)

\* new Engine(data, { minSearchChars }): the component passes no
\* initialExpanded
TreeConstructorInputs == {[minSearchChars |-> 2, initialExpanded |-> << >>]}

\* the parent's initial checkedItems and expandedItems (useState's arguments)
InitialCheckedItems == {{}, {"a"}}

InitialExpandedItems == {{}, {"__root__", "p"}}

InitEcho ==
    /\ \E data \in TreeInputs, opts \in TreeConstructorInputs :
            Constructed(data, opts.minSearchChars, opts.initialExpanded)
    /\ handles = << >>
    /\ ctl = NoCtl
    /\ last = NoCall
    /\ calls = << >>
    /\ seen = << >>
    /\ released = {}
    /\ preSearch = {}
    /\ budget = MaxOps

\* the effects of the first commit, in the order they are declared:
\* subscribe(force), the upstream-events subscription, setChecked(checkedItems,
\* true), setExpanded(expandedItems), setSearchQuery("")
Mount ==
    \E c \in InitialCheckedItems, x \in InitialExpandedItems :
        /\ ~ctl.attached
        /\ LET e0 == [Entry EXCEPT
                        !.observers = <<ForceCallback, UpstreamCallback>>,
                        !.ctl = [NoCtl EXCEPT !.attached = TRUE,
                                              !.prevSelVer = selectionVersion,
                                              !.prevExpVer = expandVersion,
                                              !.checkedItems = c,
                                              !.expandedItems = x]]
               e1 == setChecked(e0, c, TRUE)
               e2 == setExpanded(e1, x)
               e3 == setSearchQuery(e2, << >>)
           IN  Step(e3, Call("mount", "", FALSE, {}, << >>), 0)

\* the controlled effect, run again when onCheck has changed checkedItems:
\* engine.setChecked(checkedItems, true)
EchoChecked ==
    /\ ctl.pendChecked
    /\ Step(setChecked([Entry EXCEPT !.ctl.pendChecked = FALSE], ctl.checkedItems, TRUE),
            Call("echoChecked", "", TRUE, ctl.checkedItems, << >>), 0)

\* the controlled effect, run again when onExpand has changed expandedItems:
\* engine.setExpanded(expandedItems)
EchoExpanded ==
    /\ ctl.pendExpanded
    /\ Step(setExpanded([Entry EXCEPT !.ctl.pendExpanded = FALSE], ctl.expandedItems),
            Call("echoExpanded", "", FALSE, ctl.expandedItems, << >>), 0)

\* the engine is created and subscribed by the component before any event
\* and is called by the component alone (dist/index.js 1262-1336)
NextEcho ==
    \/ Mount
    \/ ctl.attached /\ Toggle
    \/ ctl.attached /\ ToggleExpanded
    \/ ctl.attached /\ ExpandAll
    \/ ctl.attached /\ CollapseAll
    \/ ctl.attached /\ SetSearchQuery
    \/ ctl.attached /\ GetVisibleItems
    \/ ctl.attached /\ GetViewState
    \/ EchoChecked
    \/ EchoExpanded

SpecEcho == InitEcho /\ [][NextEcho]_vars

-----------------------------------------------------------------------------
(* Vocabulary of the properties.                                           *)

RECURSIVE Descendants(_)
Descendants(id) ==
    LET ch == Range(MapGet(childrenMap, id, << >>))
    IN  ch \cup UNION {Descendants(c) : c \in ch}

TreeLeaves == Range(leafIds)

LeafDescendants(f) == {x \in Descendants(f) : x \notin folderSet}

\* the leaves in the subtree of id: id itself when it is no folder
SubtreeLeaves(id) == IF id \in folderSet THEN LeafDescendants(id) ELSE {id}

StateOf(checked) == IF checked THEN Checked ELSE Unchecked

\* what the full-tree resolver returns
baseRet(e, id) == getStateBase(e, id).stateCache[id]

\* a resolver without memo: the tri-state read off the assignments and the
\* children view alone
RECURSIVE freshResolve(_, _, _)
freshResolve(e, filtered, id) ==
    LET ch == IF filtered /\ e.searchActive
              THEN MapGet(e.visibleChildrenMap, id, << >>)
              ELSE MapGet(childrenMap, id, << >>)
        sts == {freshResolve(e, filtered, ch[i]) : i \in DOMAIN ch}
    IN  IF ch = << >> THEN leafState(e, id)
        ELSE IF sts = {Checked} THEN Checked
        ELSE IF sts = {Unchecked} THEN Unchecked
        ELSE Indeterminate

isCheckedLeafKey(id) ==
    id \notin folderSet /\ freshResolve(Cur, FALSE, id) = Checked

PendCount(c) ==
    (IF c.pendChecked THEN 1 ELSE 0) + (IF c.pendExpanded THEN 1 ELSE 0)

-----------------------------------------------------------------------------
(* C1.  With search inactive, in every reachable state and for every       *)
(* folder f: getViewState(f) is Checked iff every leaf descendant of f     *)
(* resolves Checked, Unchecked iff every leaf descendant resolves          *)
(* Unchecked, and Indeterminate otherwise.                                 *)
C1_TriStateCorrect ==
    ~searchActive =>
        \A f \in folderSet :
            LET st == getViewStateRet(Cur, f)
                leafSts == {getViewStateRet(Cur, l) : l \in LeafDescendants(f)}
            IN  /\ (st = Checked) <=> (leafSts \subseteq {Checked})
                /\ (st = Unchecked) <=> (leafSts \subseteq {Unchecked})
                /\ (st = Indeterminate) <=>
                        ~(leafSts \subseteq {Checked}) /\ ~(leafSts \subseteq {Unchecked})

\* a folder is Checked while another is Indeterminate
C1_Witness ==
    /\ ~searchActive
    /\ getViewStateRet(Cur, "p") = Checked
    /\ getViewStateRet(Cur, rootId) = Indeterminate

(* C2.  With search inactive, toggle(id, checked) makes every leaf in the  *)
(* subtree of id (id itself when it is a leaf) resolve to checked, makes   *)
(* getViewState(id) Checked / Unchecked accordingly, and leaves the        *)
(* resolved state of every leaf outside that subtree unchanged.            *)
C2_ToggleFullEffect ==
    [][ (last'.op = "toggle" /\ ~searchActive) =>
            LET id == last'.id
                target == StateOf(last'.flag)
                inside == SubtreeLeaves(id)
            IN  /\ \A l \in inside : getViewStateRet(Cur', l) = target
                /\ getViewStateRet(Cur', id) = target
                /\ \A l \in (TreeLeaves \cup {UnknownId}) \ inside :
                        getViewStateRet(Cur', l) = getViewStateRet(Cur, l)
      ]_vars

\* toggle(p, false) has acted on a tree whose leaf d, outside p, stays Checked
C2_Witness ==
    /\ last.op = "toggle" /\ last.id = "p" /\ ~last.flag
    /\ ~searchActive
    /\ getViewStateRet(Cur, "d") = Checked
    /\ getViewStateRet(Cur, "p") = Unchecked

(* C3.  With search inactive, for a folder f whose descendants hold        *)
(* arbitrary explicit assignments: after toggle(f, true) no proper         *)
(* descendant of f holds an explicit assignment and getViewState(f) is     *)
(* Checked; a following toggle(l, false) on one leaf descendant l of f     *)
(* (f having another leaf descendant) makes f Indeterminate while every    *)
(* other leaf descendant of f still resolves Checked.                      *)
C3_Consolidation ==
    [][ /\ (last'.op = "toggle" /\ ~searchActive /\ last'.id \in folderSet /\ last'.flag) =>
            /\ \A x \in Descendants(last'.id) : ~MapHas(assignments', x)
            /\ getViewStateRet(Cur', last'.id) = Checked
        /\ ( /\ last.op = "toggle" /\ last.id \in folderSet /\ last.flag
             /\ ~searchActive
             /\ last'.op = "toggle" /\ ~last'.flag
             /\ last'.id \in LeafDescendants(last.id)
             /\ LeafDescendants(last.id) \ {last'.id} # {} ) =>
            /\ getViewStateRet(Cur', last.id) = Indeterminate
            /\ \A l \in LeafDescendants(last.id) \ {last'.id} :
                    getViewStateRet(Cur', l) = Checked
      ]_vars

\* toggle(a, false) has acted after p was consolidated to one assignment
C3_Witness ==
    /\ last.op = "toggle" /\ last.id = "a" /\ ~last.flag
    /\ ~searchActive
    /\ MapHas(assignments, "p") /\ assignments["p"]
    /\ getViewStateRet(Cur, "p") = Indeterminate
    /\ getViewStateRet(Cur, "c") = Checked

(* C4.  With search active, toggle(id, checked) for any id (folder or      *)
(* leaf, visible or hidden) changes the full-tree resolved state of no     *)
(* leaf outside the current VisibleSet.                                    *)
C4_SearchToggleKeepsHidden ==
    [][ (last'.op = "toggle" /\ searchActive) =>
            \A l \in TreeLeaves \ visibleSet : baseRet(Cur', l) = baseRet(Cur, l)
      ]_vars

(* C5.  With search active and p a visible folder, toggle(p, checked)      *)
(* makes every visible leaf under p resolve to checked and makes           *)
(* getViewState(p) Checked / Unchecked; after the query is then cleared,   *)
(* getAllChecked() equals the pre-toggle checked set with exactly the      *)
(* visible leaves under p added / removed.                                 *)
VisibleLeavesUnder(p) == LeafDescendants(p) \cap visibleSet

\* what toggle(p, checked) of this step has to achieve
SearchToggleEffect ==
    LET p == last'.id
        target == StateOf(last'.flag)
        vl == VisibleLeavesUnder(p)
        before == Range(getAllCheckedRet(Cur))
        after == Range(getAllCheckedRet(Cur'))
    IN  /\ \A l \in vl : getViewStateRet(Cur', l) = target
        /\ getViewStateRet(Cur', p) = target
        /\ after = IF last'.flag THEN before \cup vl ELSE before \ vl

\* what clearing the query in this step has to keep
ClearKeepsChecked ==
    /\ ~searchActive'
    /\ Range(getAllCheckedRet(Cur')) = Range(getAllCheckedRet(Cur))

FilteredTriState(f) ==
    LET st == getViewStateRet(Cur, f)
        leafSts == {getViewStateRet(Cur, l) : l \in VisibleLeavesUnder(f)}
    IN  /\ (st = Checked) <=> (leafSts \subseteq {Checked})
        /\ (st = Unchecked) <=> (leafSts \subseteq {Unchecked})
        /\ (st = Indeterminate) <=>
                ~(leafSts \subseteq {Checked}) /\ ~(leafSts \subseteq {Unchecked})

C6_Original ==
    searchActive => \A f \in folderSet \cap visibleSet : FilteredTriState(f)

\* amended: for every visible folder that has a visible leaf descendant
C6_FilteredTriState ==
    searchActive =>
        \A f \in folderSet \cap visibleSet :
            VisibleLeavesUnder(f) # {} => FilteredTriState(f)

\* p shows Checked under the search although its hidden leaf c is unchecked
C6_Witness ==
    /\ searchActive
    /\ "c" \notin visibleSet
    /\ getViewStateRet(Cur, "p") = Checked
    /\ baseRet(Cur, "p") = Indeterminate
    /\ getViewStateRet(Cur, rootId) = Indeterminate

(* C7.  In every reachable state, setChecked(getAllChecked()) (silent or   *)
(* not) and setExpanded(getExpanded()) are no-ops: they change none of     *)
(* version, selectionVersion, expandVersion, searchEpoch, change no engine *)
(* state, and invoke no subscriber.  The argument getAllChecked() is       *)
(* evaluated first, so the engine setChecked is called in is the one that  *)
(* read left.                                                              *)
C7_EchoIsNoOp ==
    LET read == getAllChecked(Entry)
    IN  /\ \A silent \in BOOLEAN :
            setChecked(read, Range(read.allCheckedCache), silent) = read
        /\ setExpanded(Entry, expanded) = Entry

\* setChecked(getAllChecked()) has been called on an engine with a
\* subscriber and a checked leaf
C7_Witness ==
    /\ last.op = "setChecked"
    /\ last.ids = Range(getAllCheckedRet(Cur))
    /\ last.ids # {}
    /\ observers # << >>
    /\ calls = << >>

(* C8.  A controlling caller that answers every notification by echoing   *)
(* the engine's last-emitted state back cannot create an unbounded update  *)
(* loop: every echo call leaves the engine as the operation left it and    *)
(* leaves fewer echoes to make, so the chain after one operation ends      *)
(* after at most two echo calls.                                           *)
C8_EchoChainStops ==
    [][ (last'.op \in {"echoChecked", "echoExpanded"}) =>
            /\ [Cur' EXCEPT !.ctl = ctl, !.calls = calls, !.seen = seen] = Cur
            /\ calls' = << >>
            /\ PendCount(ctl') < PendCount(ctl)
      ]_vars

\* the expansion emitted by a search activation has been echoed back
C8_Witness ==
    /\ last.op = "echoExpanded"
    /\ searchActive
    /\ ctl.expandedItems = expanded
    /\ Idle

(* C9.  After any sequence of public operations, getVisibleItems() returns *)
(* a list equal to a fresh, uncached depth-first traversal of the current  *)
(* state; a list memoized before a mutation is never returned after it.    *)
C9_FlatListFresh ==
    getVisibleItemsRet(Cur) = visit(Cur, rootId, -1, << >>)

(* C10.  After any sequence of public operations, getViewState(id) for     *)
(* every id and getAllChecked() equal the values an uncached resolver      *)
(* computes from the current Assignments and the current (full or          *)
(* search-restricted) children view.                                       *)
C10_ResolverFresh ==
    /\ \A id \in IdInputs : getViewStateRet(Cur, id) = freshResolve(Cur, TRUE, id)
    /\ getAllCheckedRet(Cur) = SelectSeq(keyOrder, isCheckedLeafKey)

\* the filtered memo is warm after a toggle under an active search, and
\* holds for p a value other than the full-tree one
C10_Witness ==
    /\ searchActive
    /\ DOMAIN assignments # {}
    /\ MapHas(stateCacheFiltered, "p")
    /\ stateCacheFiltered["p"] # baseRet(Cur, "p")

-----------------------------------------------------------------------------
\* the IDs of the rows of a visible list
RowIds(rows) == {rows[i].id : i \in DOMAIN rows}

\* the proper ancestors of a node, read off the children lists
Ancestors(id) == {x \in DOMAIN childrenMap : id \in Descendants(x)}

\* the leaves whose normalized label contains the normalized form of raw
LeavesMatching(raw) ==
    {l \in TreeLeaves : includes(normalizedLeafLabel[l], normalize(raw))}

(* C11.  In every reachable state, for every position i of                 *)
(* getVisibleItems(), indexOf(getVisibleItems()[i].id) equals i; and       *)
(* indexOf(id) is -1 for every id that is not a row of the current visible *)
(* list (collapsed away, hidden by search, the root, or absent from the    *)
(* tree).                                                                  *)
C11_IndexConsistent ==
    LET rows == getVisibleItemsRet(Cur)
    IN  /\ \A i \in DOMAIN rows : indexOfRet(Cur, rows[i].id) = i - 1
        /\ \A id \in IdInputs \ RowIds(rows) : indexOfRet(Cur, id) = -1

\* a search shows p, q, a, d: a is the third row, the hidden leaf c, the root
\* and an unknown ID have no index
C11_Witness ==
    /\ searchActive
    /\ flatCacheVersion = cacheKey(Cur)
    /\ Len(flatVisibleItems) = 4
    /\ indexOfRet(Cur, "a") = 2
    /\ indexOfRet(Cur, "c") = -1
    /\ indexOfRet(Cur, rootId) = -1
    /\ indexOfRet(Cur, UnknownId) = -1

(* C12.  Immediately after a setSearchQuery that activates search,         *)
(* isSearchActive() is true and the IDs in getVisibleItems() are exactly   *)
(* the leaves whose normalized label contains the normalized query         *)
(* together with all their ancestors other than root; no other node is a   *)
(* row.                                                                    *)
C12_SearchVisibility ==
    [][ (last'.op = "setSearchQuery" /\ searchActive'
            /\ normalizedQuery' # normalizedQuery) =>
            LET m == LeavesMatching(last'.q)
            IN  RowIds(getVisibleItemsRet(Cur')) =
                    (m \cup UNION {Ancestors(l) : l \in m}) \ {rootId}
      ]_vars

(* C13.  When search is active and setSearchQuery is called with a query   *)
(* shorter than minSearchChars, search becomes inactive and the Expanded   *)
(* set is restored to the set it was immediately before the search was     *)
(* activated.                                                              *)
ShortQueryWhileActive ==
    /\ last'.op = "setSearchQuery"
    /\ searchActive
    /\ Len(normalize(last'.q)) < minSearchChars

C13_Original ==
    [][ ShortQueryWhileActive => (~searchActive' /\ expanded' = preSearch) ]_vars

\* amended: a short query other than the current one makes search inactive
\* and leaves Expanded = {root}, whatever was expanded before the search
C13_DeactivationCollapses ==
    [][ (ShortQueryWhileActive /\ normalize(last'.q) # normalizedQuery) =>
            (~searchActive' /\ expanded' = {rootId}) ]_vars

\* the search that replaced the expansion {root, p, d} has been left by a
\* short query: only the root is expanded
C13_Witness ==
    /\ last.op = "setSearchQuery"
    /\ Len(normalize(last.q)) < minSearchChars
    /\ ~searchActive
    /\ version = searchEpoch /\ searchEpoch = 2
    /\ "p" \in folderSet
    /\ expanded = {rootId}

(* C14.  When a query transition deactivates a previously active search,   *)
(* Expanded becomes exactly {root}: expansion changes made during the      *)
(* search are discarded and nothing else is expanded.                      *)
C14_DeactivationExpandsRootOnly ==
    [][ (searchActive /\ ~searchActive') => expanded' = {rootId} ]_vars

\* a search in which q was collapsed by hand has been left
C14_Witness ==
    /\ last.op = "setSearchQuery"
    /\ ~searchActive
    /\ searchEpoch = 2 /\ expandVersion = 3
    /\ "p" \in folderSet
    /\ expanded = {rootId}

(* C15.  Immediately after a query transition that activates search (from  *)
(* inactive, or from an active search with a different query), Expanded    *)
(* equals {root} plus exactly the structural folders in VisibleSet: every  *)
(* folder on a path to a match is expanded and no previously expanded      *)
(* folder outside VisibleSet stays expanded.                               *)
C15_ActivationExpandsMatches ==
    [][ (last'.op = "setSearchQuery" /\ searchActive'
            /\ normalizedQuery' # normalizedQuery) =>
            /\ expanded' = {rootId} \cup (visibleSet' \cap folderSet)
            /\ \A l \in LeavesMatching(last'.q) :
                    Ancestors(l) \cap folderSet \subseteq expanded'
      ]_vars

\* a query that matches nothing was set while p was expanded: p is collapsed
C15_Witness ==
    /\ last.op = "setSearchQuery"
    /\ searchActive
    /\ searchEpoch = 1
    /\ "p" \in preSearch
    /\ LeavesMatching(last.q) = {}
    /\ expanded = {rootId}

(* C16.  In every reachable state, isSearchActive() is true iff the length *)
(* of the normalized current query is at least the current minimum search  *)
(* length (values below 1 counted as 1); in particular, after              *)
(* setMinSearchChars(n) changes the threshold, the current query is        *)
(* re-evaluated against n.                                                 *)
C16_ActiveIffLongEnough ==
    searchActive <=>
        Len(normalizedQuery) >= (IF minSearchChars < 1 THEN 1 ELSE minSearchChars)

C18_ExpandedAreFolders == expanded \subseteq folderSet

(* C19.  toggleExpanded, expandAll, collapseAll and setExpanded never      *)
(* change selectionVersion, the explicit Assignments, the resolved state   *)
(* of any node, or the result of getAllChecked(); when they are not a      *)
(* no-op they increase version and expandVersion by exactly one each.      *)
ExpansionOps == {"toggleExpanded", "expandAll", "collapseAll", "setExpanded"}

C19_ExpansionKeepsSelection ==
    [][ (last'.op \in ExpansionOps) =>
            /\ selectionVersion' = selectionVersion
            /\ assignments' = assignments
            /\ \A id \in IdInputs :
                    /\ getViewStateRet(Cur', id) = getViewStateRet(Cur, id)
                    /\ baseRet(Cur', id) = baseRet(Cur, id)
            /\ getAllCheckedRet(Cur') = getAllCheckedRet(Cur)
            /\ \/ version' = version + 1 /\ expandVersion' = expandVersion + 1
               \/ [Cur' EXCEPT !.calls = calls, !.seen = seen] = Cur /\ calls' = << >>
      ]_vars

\* collapseAll has acted on an engine with a selection made by one toggle
C19_Witness ==
    /\ last.op = "collapseAll"
    /\ DOMAIN assignments # {}
    /\ selectionVersion = 1
    /\ expandVersion = 1 /\ version = 2
    /\ Range(getAllCheckedRet(Cur)) # {}

(* C20.  setChecked(ids, silent=true) that changes the selection leaves    *)
(* selectionVersion unchanged, yet afterwards getAllChecked() and          *)
(* getViewState of every node reflect the new selection exactly as after   *)
(* the same call with silent=false, version has increased by one, and      *)
(* every subscriber has been invoked.                                      *)
C20_SilentSetChecked ==
    [][ (last'.op = "setChecked" /\ last'.flag /\ assignments' # assignments) =>
            LET loud == setChecked(Entry, last'.ids, FALSE)
            IN  /\ selectionVersion' = selectionVersion
                /\ version' = version + 1
                /\ calls' = observers
                /\ Range(getAllCheckedRet(Cur')) = last'.ids \cap TreeLeaves
                /\ getAllCheckedRet(Cur') = getAllCheckedRet(loud)
                /\ \A id \in IdInputs :
                        getViewStateRet(Cur', id) = getViewStateRet(loud, id)
      ]_vars

\* a silent setChecked({a, p}) has acted as the first mutation, with a
\* subscriber listening: a is checked, the folder p was dropped
C20_Witness ==
    /\ last.op = "setChecked" /\ last.flag
    /\ last.ids = {"a", "p"}
    /\ selectionVersion = 0 /\ version = 1
    /\ observers # << >> /\ calls = observers
    /\ Range(getAllCheckedRet(Cur)) = {"a"}

-----------------------------------------------------------------------------
(* C21.  After setChecked(ids), from any state and for any list ids, the   *)
(* set getAllChecked() returns is exactly the set of the leaves of the     *)
(* tree that occur in ids: every other leaf resolves Unchecked in the full *)
(* tree, whatever was assigned to it or to a folder above it before, and a *)
(* folder in ids checks none of its descendants.                           *)
C21_SetCheckedExact ==
    [][ last'.op = "setChecked" =>
            /\ Range(getAllCheckedRet(Cur')) = last'.ids \cap TreeLeaves
            /\ \A l \in TreeLeaves : baseRet(Cur', l) = StateOf(l \in last'.ids)
      ]_vars

\* setChecked({a, p}) has acted on a tree where a folder-level assignment had
\* checked every leaf: only a is left checked
C21_Witness ==
    /\ last.op = "setChecked" /\ last.ids = {"a", "p"}
    /\ selectionVersion = 2
    /\ assignments = [id \in {"a"} |-> TRUE]
    /\ Range(getAllCheckedRet(Cur)) = {"a"}
    /\ baseRet(Cur, "c") = Unchecked /\ baseRet(Cur, "d") = Unchecked

(* C22.  In every reachable state, search active or not, getAllChecked()   *)
(* holds no folder and holds exactly the leaves of the tree that resolve   *)
(* Checked in the full, unfiltered tree, those hidden by the search or by  *)
(* a collapsed ancestor included.                                          *)
C22_AllCheckedIsCheckedLeaves ==
    LET got == Range(getAllCheckedRet(Cur))
    IN  /\ got \cap folderSet = {}
        /\ got = {l \in TreeLeaves : freshResolve(Cur, FALSE, l) = Checked}

\* a search is active that hides the leaf c, whose folder p is collapsed, and
\* getAllChecked() holds c
C22_Witness ==
    /\ searchActive
    /\ "c" \in TreeLeaves /\ "c" \notin visibleSet
    /\ "p" \notin expanded
    /\ "c" \in Range(getAllCheckedRet(Cur))
    /\ "d" \notin Range(getAllCheckedRet(Cur))

(* C23.  The subscribers are invoked within the call, in the order they    *)
(* were subscribed, and only after the operation has finished updating its *)
(* state and caches: what getVisibleItems(), getViewState(),               *)
(* getAllChecked(), getExpanded(), isSearchActive() and the version        *)
(* getters return inside a callback is what they return once the operation *)
(* has returned.                                                           *)
C23_CallbacksSeeFinalState ==
    [][ /\ calls' = << >> \/ calls' = observers'
        /\ Len(seen') = Len(calls')
        /\ \A i \in DOMAIN calls' : seen'[i] = Observed(Cur')
        /\ \A i, j \in DOMAIN calls' :
                i < j => \E hi, hj \in DOMAIN handles' :
                            /\ hi < hj
                            /\ handles'[hi] = calls'[i]
                            /\ handles'[hj] = calls'[j]
      ]_vars

\* cb2 was subscribed before cb1, and a toggle of the folder p has invoked
\* both, in that order, with p Checked
C23_Witness ==
    /\ last.op = "toggle" /\ last.id = "p" /\ last.flag
    /\ calls = <<"cb2", "cb1">>
    /\ Len(seen) = 2
    /\ seen[1].viewState["p"] = Checked
    /\ seen[2].selectionVersion = 1

(* C24.  For an ID that is no key of the tree definition, getViewState(id) *)
(* returns Unchecked in every reachable state, whatever public operations  *)
(* were called before.                                                     *)
C24_UnknownIdUnchecked ==
    \A id \in IdInputs \ DOMAIN childrenMap :
        getViewStateRet(Cur, id) = Unchecked

(* C25.  toggleExpanded(id) on a leaf or on an ID absent from the tree is  *)
(* a no-op: Expanded, the four counters and the visible list are unchanged *)
(* and no subscriber is invoked.  On a folder other than the root it flips *)
(* the membership of exactly that folder in Expanded and changes no other  *)
(* member.                                                                 *)
C25_ToggleExpandedGuard ==
    [][ last'.op = "toggleExpanded" =>
            LET id == last'.id
            IN  /\ id \notin folderSet =>
                    /\ expanded' = expanded
                    /\ version' = version
                    /\ selectionVersion' = selectionVersion
                    /\ expandVersion' = expandVersion
                    /\ searchEpoch' = searchEpoch
                    /\ getVisibleItemsRet(Cur') = getVisibleItemsRet(Cur)
                    /\ calls' = << >>
                /\ (id \in folderSet /\ id # rootId) =>
                    /\ (id \in expanded') <=> (id \notin expanded)
                    /\ expanded' \ {id} = expanded \ {id}
      ]_vars

\* toggleExpanded of the leaf d, which the constructor was handed as
\* expanded, has acted with a subscriber listening: nobody was called
C25_Witness ==
    /\ last.op = "toggleExpanded" /\ last.id = "d"
    /\ "d" \in DOMAIN childrenMap /\ "d" \notin folderSet
    /\ "d" \in expanded
    /\ observers # << >> /\ calls = << >>
    /\ version = 0

\* the rows of a collapsed tree, but for isFolder
CollapsedRows(e) ==
    LET ch == IF e.searchActive THEN MapGet(e.visibleChildrenMap, rootId, << >>)
              ELSE MapGet(childrenMap, rootId, << >>)
    IN  [i \in DOMAIN ch |-> [id |-> ch[i], isExpanded |-> FALSE, level |-> 0]]

RowsButIsFolder(rows) ==
    [i \in DOMAIN rows |->
        [id |-> rows[i].id, isExpanded |-> rows[i].isExpanded, level |-> rows[i].level]]

C27_SameNormalizedQueryNoOp ==
    [][ (last'.op = "setSearchQuery" /\ normalize(last'.q) = normalizedQuery) =>
            /\ searchQuery' = last'.q
            /\ [Cur' EXCEPT !.searchQuery = searchQuery,
                            !.calls = calls, !.seen = seen] = Cur
            /\ calls' = << >>
      ]_vars

\* setSearchQuery("AL") has acted on an active search for "al", with a
\* subscriber listening: only the raw string changed
C27_Witness ==
    /\ last.op = "setSearchQuery" /\ last.q = <<"A", "L">>
    /\ searchQuery = <<"A", "L">> /\ normalizedQuery = <<"a", "l">>
    /\ searchActive /\ searchEpoch = 1
    /\ observers # << >> /\ calls = << >>

(* C28.  Every setSearchQuery call whose normalized query differs from the *)
(* stored one, whether it activates the search, deactivates it, keeps it   *)
(* active or keeps it inactive, increases searchEpoch, version and         *)
(* expandVersion by exactly one each, leaves selectionVersion unchanged    *)
(* and invokes every subscriber exactly once.                              *)
C28_QueryChangeCounts ==
    [][ (last'.op = "setSearchQuery" /\ normalize(last'.q) # normalizedQuery) =>
            /\ searchEpoch' = searchEpoch + 1
            /\ version' = version + 1
            /\ expandVersion' = expandVersion + 1
            /\ selectionVersion' = selectionVersion
            /\ observers' = observers
            /\ calls' = observers
      ]_vars

\* two subscribers were each called once by setSearchQuery("l"), a query
\* too short to activate the search
C28_Witness ==
    /\ last.op = "setSearchQuery" /\ last.q = <<"l">>
    /\ ~searchActive /\ normalizedQuery = <<"l">>
    /\ searchEpoch = 1 /\ version = 1 /\ expandVersion = 1 /\ selectionVersion = 0
    /\ Len(observers) = 2 /\ calls = observers

(* C29.  setExpanded(ids) increases version / expandVersion and invokes    *)
(* subscribers only if the Expanded set after the call differs from the    *)
(* Expanded set before it: when the resulting set equals the current one,  *)
(* nothing is bumped and nobody is notified.                               *)
C29_SetExpandedOnlyOnChange ==
    [][ (last'.op = "setExpanded" /\ expanded' = expanded) =>
            /\ version' = version
            /\ expandVersion' = expandVersion
            /\ calls' = << >>
      ]_vars

(* C30.  setChecked(ids), for any list of leaf IDs, folder IDs and IDs     *)
(* absent from the tree, increases version / selectionVersion and invokes  *)
(* subscribers only if the set getAllChecked() returns after the call      *)
(* differs from the set it returned before.                                *)
C30_SetCheckedOnlyOnChange ==
    [][ ( /\ last'.op = "setChecked"
          /\ Range(getAllCheckedRet(Cur')) = Range(getAllCheckedRet(Cur)) ) =>
            /\ version' = version
            /\ selectionVersion' = selectionVersion
            /\ calls' = << >>
      ]_vars

-----------------------------------------------------------------------------
\* the position of a child in its parent's children list
ChildPos(id) ==
    LET ch == childrenMap[parentMap[id]]
    IN  CHOOSE i \in DOMAIN ch : ch[i] = id

(* C31.  In every reachable state getVisibleItems() is a pre-order listing *)
(* without duplicates that never contains the root: a row whose parent is  *)
(* the root has level 0; every other row has its parent's level plus one,  *)
(* its parent is an earlier row with isFolder and isExpanded true, and the *)
(* rows between the parent and it are descendants of that parent; a row    *)
(* with isExpanded false is followed by none of its descendants; siblings  *)
(* appear in ChildrenMap order.                                            *)
C31_PreOrderListing ==
    LET rows == getVisibleItemsRet(Cur)
    IN  /\ \A i, j \in DOMAIN rows : rows[i].id = rows[j].id => i = j
        /\ rootId \notin RowIds(rows)
        /\ \A i \in DOMAIN rows :
            /\ rows[i].id \in DOMAIN parentMap
            /\ LET p == parentMap[rows[i].id]
               IN  IF p = rootId THEN rows[i].level = 0
                   ELSE \E k \in 1..(i - 1) :
                            /\ rows[k].id = p
                            /\ rows[k].isFolder /\ rows[k].isExpanded
                            /\ rows[i].level = rows[k].level + 1
                            /\ \A m \in (k + 1)..(i - 1) :
                                    rows[m].id \in Descendants(p)
            /\ ~rows[i].isExpanded =>
                    \A j \in (i + 1)..Len(rows) :
                        rows[j].id \notin Descendants(rows[i].id)
        /\ \A i, j \in DOMAIN rows :
                (i < j /\ parentMap[rows[i].id] = parentMap[rows[j].id]) =>
                    ChildPos(rows[i].id) < ChildPos(rows[j].id)

\* every folder is expanded and no search is active: p, q, a, c, d with a
\* two levels below p
C31_Witness ==
    /\ ~searchActive
    /\ flatCacheVersion = cacheKey(Cur)
    /\ [i \in DOMAIN flatVisibleItems |-> flatVisibleItems[i].id] =
            <<"p", "q", "a", "c", "d">>
    /\ flatVisibleItems[3].level = 2
    /\ flatVisibleItems[5].level = 0

(* C32.  The version counters detect every change: version,                *)
(* selectionVersion, expandVersion and searchEpoch never decrease, no      *)
(* operation changes the Expanded set without increasing expandVersion,    *)
(* and no operation other than a silent one changes the set                *)
(* getAllChecked() returns without increasing selectionVersion.            *)
C32_CountersDetectChanges ==
    [][ /\ version' >= version
        /\ selectionVersion' >= selectionVersion
        /\ expandVersion' >= expandVersion
        /\ searchEpoch' >= searchEpoch
        /\ expanded' # expanded => expandVersion' > expandVersion
        /\ ( /\ Range(getAllCheckedRet(Cur')) # Range(getAllCheckedRet(Cur))
             /\ ~(last'.op \in {"setChecked", "echoChecked"} /\ last'.flag)
             /\ last'.op # "mount" ) =>
                selectionVersion' > selectionVersion
      ]_vars

\* collapseAll and then toggle(p, true) have acted: each change shows in
\* its counter
C32_Witness ==
    /\ last.op = "toggle" /\ last.id = "p" /\ last.flag
    /\ expanded = {rootId} /\ expandVersion = 1
    /\ Range(getAllCheckedRet(Cur)) = {"a", "c"} /\ selectionVersion = 1
    /\ version = 2

\* the callbacks a notification issued in this state invokes
Notified == Range(dispatch(Entry).calls)

\* the subscriptions whose unsubscribe handle has not been called
LiveHandles == DOMAIN handles \ released

(* C33.  Each subscribe call creates an independent subscription: calling  *)
(* the unsubscribe handle one subscribe call returned stops only that      *)
(* subscription, and every subscription whose handle has not been called,  *)
(* another subscription of the same callback function included, is still   *)
(* invoked on every later notification.                                    *)
C33_IndependentSubscriptions ==
    /\ \A h \in LiveHandles : handles[h] \in Notified
    /\ \A cb \in Notified \cap Range(handles) :
            \E h \in LiveHandles : handles[h] = cb

(* C34.  While a search is active, after any sequence of expansion         *)
(* operations (toggleExpanded, expandAll, collapseAll, setExpanded) and    *)
(* toggles, every row of getVisibleItems() is a member of VisibleSet other *)
(* than the root: a node that neither matches the query nor is an          *)
(* ancestor of a match is never a row.                                     *)
C34_RowsInVisibleSet ==
    searchActive =>
        LET m == LeavesMatching(searchQuery)
        IN  RowIds(getVisibleItemsRet(Cur)) \subseteq
                (visibleSet \cap (m \cup UNION {Ancestors(l) : l \in m})) \ {rootId}

(* C35.  For a valid forest, while a search is active every row's isFolder *)
(* flag equals the node's structural folder classification: every          *)
(* structural folder that appears as a row has at least one visible child, *)
(* so no structural folder is emitted as an effective leaf row, and        *)
(* toggleExpanded works on every row shown as a folder.                    *)
C35_EffectiveFolderIsStructural ==
    searchActive =>
        LET rows == getVisibleItemsRet(Cur)
        IN  \A i \in DOMAIN rows :
                LET id == rows[i].id
                IN  /\ rows[i].isFolder <=> id \in folderSet
                    /\ id \in folderSet =>
                            Len(MapGet(visibleChildrenMap, id, << >>)) > 0
                    /\ rows[i].isFolder =>
                            LET after == toggleExpanded(Entry, id)
                            IN  (id \in after.expanded) <=> (id \notin expanded)

\* whether the nearest explicit assignment on the path from id up to the
\* root exists and is true, read off the children lists
NearestAssignmentTrue(id) ==
    LET assigned == ({id} \cup Ancestors(id)) \cap DOMAIN assignments
    IN  \E x \in assigned :
            /\ assignments[x]
            /\ \A y \in assigned \ {x} : y \in Ancestors(x)

(* C36.  For every leaf of the tree and every reachable state, the         *)
(* search-restricted resolver and the full-tree resolver give the same     *)
(* state: getViewState(leaf) does not depend on whether a search is        *)
(* active, and is Checked iff the nearest explicit assignment on the path  *)
(* from the leaf itself up to the root is true (Unchecked when the path    *)
(* holds no assignment).                                                   *)
C36_LeafStateIgnoresSearch ==
    \A l \in TreeLeaves :
        LET want == StateOf(NearestAssignmentTrue(l))
        IN  /\ getStateFiltered(Cur, l).stateCacheFiltered[l] = want
            /\ getStateBase(Cur, l).stateCache[l] = want
            /\ getViewStateRet(Cur, l) = want

\* under an active search that hides c, the folder p is assigned true and
\* the leaf a false: a is Unchecked and c Checked in both resolvers
C36_Witness ==
    /\ searchActive /\ "c" \notin visibleSet /\ "a" \in visibleSet
    /\ MapHas(assignments, "p") /\ assignments["p"]
    /\ MapHas(assignments, "a") /\ ~assignments["a"]
    /\ getViewStateRet(Cur, "a") = Unchecked
    /\ getViewStateRet(Cur, "c") = Checked
    /\ baseRet(Cur, "c") = Checked

\* the rows as pairs of ID and level
IdLevels(rows) == [i \in DOMAIN rows |-> <<rows[i].id, rows[i].level>>]

\* s can be obtained from t by removing elements
RECURSIVE IsSubsequence(_, _)
IsSubsequence(s, t) ==
    IF s = << >> THEN TRUE
    ELSE IF t = << >> THEN FALSE
    ELSE IF Head(s) = Head(t) THEN IsSubsequence(Tail(s), Tail(t))
    ELSE IsSubsequence(s, Tail(t))

\* the list of the same tree with no search and every folder expanded
FullListing ==
    visit([Cur EXCEPT !.searchActive = FALSE, !.expanded = folderSet],
          rootId, -1, << >>)

(* C37.  While a search is active, the sequence of row IDs of              *)
(* getVisibleItems() is a subsequence of the row-ID sequence the same tree *)
(* produces with the search inactive and every folder expanded, and each   *)
(* row has the same level in both lists: filtering removes rows and never  *)
(* reorders or re-levels them.                                             *)
C37_FilteredIsSubsequence ==
    searchActive =>
        IsSubsequence(IdLevels(getVisibleItemsRet(Cur)), IdLevels(FullListing))

\* a search shows p, q, a and d of the five rows p, q, a, c, d
C37_Witness ==
    /\ searchActive
    /\ flatCacheVersion = cacheKey(Cur)
    /\ IdLevels(flatVisibleItems) =
            << <<"p", 0>>, <<"q", 1>>, <<"a", 2>>, <<"d", 0>> >>
    /\ Len(FullListing) = 5

(* C38.  Every call of toggle(id, checked), in either mode and for any id, *)
(* increases selectionVersion and version by exactly one and invokes every *)
(* subscriber once, even when the call changes no node's resolved state    *)
(* (re-checking a checked node, or toggling in search mode a folder with   *)
(* no visible leaf); the Tree component therefore fires onCheck, with      *)
(* getAllChecked(), on every toggle.                                       *)
C38_ToggleAlwaysNotifies ==
    [][ last'.op = "toggle" =>
            /\ selectionVersion' = selectionVersion + 1
            /\ version' = version + 1
            /\ observers' = observers
            /\ calls' = observers
            /\ ctl.attached =>
                    /\ ctl'.pendChecked
                    /\ ctl'.prevSelVer = selectionVersion'
                    /\ ctl'.checkedItems = Range(getAllCheckedRet(Cur'))
      ]_vars

\* under a search that matches nothing, toggle(p, true) assigned nothing,
\* and onCheck has handed the parent the unchanged empty selection
C38_Witness ==
    /\ last.op = "toggle" /\ last.id = "p" /\ last.flag
    /\ "p" \in folderSet
    /\ searchActive /\ visibleSet = {rootId}
    /\ assignments = EmptyMap
    /\ selectionVersion = 1
    /\ calls = <<ForceCallback, UpstreamCallback>>
    /\ ctl.attached /\ ctl.pendChecked /\ ctl.checkedItems = {}

(* C39.  setSearchQuery and setMinSearchChars never change the explicit    *)
(* Assignments, selectionVersion, the full-tree resolved state of any node *)
(* or the result of getAllChecked(): entering, changing or leaving a       *)
(* search alters only visibility, expansion and the search-restricted view *)
(* of folder states.                                                       *)
C39_SearchKeepsSelection ==
    [][ last'.op \in {"setSearchQuery", "setMinSearchChars"} =>
            /\ assignments' = assignments
            /\ selectionVersion' = selectionVersion
            /\ \A id \in IdInputs : baseRet(Cur', id) = baseRet(Cur, id)
            /\ getAllCheckedRet(Cur') = getAllCheckedRet(Cur)
      ]_vars

\* a search that hides c was activated over a selection made through the
\* folder p: p is still Checked in the full tree, shown Checked for a alone
C39_Witness ==
    /\ last.op = "setSearchQuery" /\ searchActive
    /\ "c" \in TreeLeaves /\ "c" \notin visibleSet
    /\ assignments = [id \in {"p"} |-> TRUE]
    /\ selectionVersion = 1
    /\ baseRet(Cur, "p") = Checked
    /\ Range(getAllCheckedRet(Cur)) = {"a", "c"}

(* C40.  The flatten cache key, (version << 8) XOR searchEpoch in 32-bit   *)
(* signed arithmetic, never equals the invalidation value -1 for counter   *)
(* values a sequence of operations can reach (searchEpoch <= version), so  *)
(* a visible list invalidated by a mutation is never served again as if it *)
(* were current.                                                           *)
C40_KeyNeverSentinel ==
    /\ searchEpoch <= version
    /\ cacheKey(Cur) # -1

====
